---- MODULE Spec2Model ----
(***************************************************************************)
(* RedGiant event index: BaseEventIndex (update / batch_update / apply /   *)
(* dump) with its changeset mutex, the expire table it owns and the        *)
(* reader-visible posting lists of its base index.                         *)
(***************************************************************************)
EXTENDS Integers, Sequences, FiniteSets, TLC

\* ------------------------------------------------------------------ bounds
Terms == {1, 2}
Docs == {1, 2}
Weights == {1, 2}
Times == {1, 2}
\* the clock values handed to apply
Nows == {0, 1, 2}
Writers == {"w1", "w2"}
NoThread == "free"

\* max_size_ of the index under test (configuration value)
max_size == 1
\* total number of tuples the writers submit in one behaviour
MaxStaged == 2
\* number of apply calls of the maintenance thread in one behaviour
MaxApply == 2

VARIABLES
  index,      \* reader-visible posting lists: term -> sorted seq of <<doc, weight>>
  changeset,  \* changeset_: ordered log of staged edits
  expire,     \* expire_: set of entries [key |-> <<term, doc>>, t |-> expire time]
  mutex,      \* owner of changeset_mutex_, or NoThread
  wpc,        \* writer -> "idle" | "batch" (inside batch_update's critical section)
  wbatch,     \* writer -> tuples of its batch not yet processed
  wret,       \* writer -> batch_update's running return value
  apc,        \* maintenance thread: "idle" | "publish" (inside apply)
  newl,       \* apply_internal: the new per-term lists it constructed
  todo,       \* apply_internal: terms whose new list is not swapped in yet
  subm,       \* history: the tuples submitted since the last apply returned
  csTag,      \* history: call id of each changeset edit (0: staged by apply)
  batchLen,   \* history: call id -> number of tuples of that update / batch_update
  pubN,       \* history: call id -> number of its tuples published to readers
  nbatch,     \* history: number of non-empty update / batch_update calls started
              \*   (the three above cover the calls since the last apply returned)
  nstaged,    \* history: number of tuples submitted so far
  napply,     \* history: number of apply calls started
  lastExp,    \* history: key -> expire_time of its most recent update (0: none
              \*   since the key was last popped)
  alast,      \* history: what the apply in progress started from and popped
  dpc,        \* dump: "idle" | "mid" (postings written, expiration not yet)
  dIdx,       \* dump: postings section written
  dExp,       \* dump: expiration section written
  dRef,       \* history: expire table when the postings section was written
  dMark,      \* history: <<nstaged, napply>> when the postings section was written
  dQuiet,     \* history: no writer or apply was inside its critical section when
              \*   dump read the index, and none ran between its two reads
  aret,       \* apply: ret, ret_expire of the apply in progress, and the size of
              \*   the expire table as it found it
  spaces,     \* FeatureCache::spaces_: space name -> FeatureSpace, or NoSpace
  features,   \* FeatureCache::features_: feature id -> Feature object, or 0
  heap,       \* the Feature objects made so far: object n is heap[n]
  fcall,      \* history: the last create_or_get_feature call and what it returned
  mpc,        \* server_main: where the main thread is
  cfg,        \* server_main: restore_on_startup, dump_on_exit
  mrestore,   \* server_main: "none" | "ok" | "failed", how the restore went
  mload,      \* the DocumentIndexManager under construction: what it has loaded
  maintain,   \* maintenance thread: "off" | "on" | "stopped"
  pipeline,   \* update pipeline: "off" | "on" | "stopping" | "stopped"
  server,     \* HTTP server: "off" | "on" | "stopped"
  guards,     \* the ScopeGuards alive in server_main, innermost last
  mret,       \* what server_main returned (1: not yet)
  mlog,       \* history: the calls start/stop/dump made so far, in order
  queue,      \* update pipeline: the jobs waiting in its queue
  accepted    \* history: the number of jobs enqueue has accepted

vars == <<index, changeset, expire, mutex, wpc, wbatch, wret, apc, newl, todo,
          subm, csTag, batchLen, pubN, nbatch, nstaged, napply, lastExp,
          alast, dpc, dIdx, dExp, dRef, dMark, dQuiet, aret,
          spaces, features, heap, fcall,
          mpc, cfg, mrestore, mload, maintain, pipeline, server, guards, mret, mlog,
          queue, accepted>>

Keys == Terms \X Docs
\* EventTuple: <<doc_id, term_id, weight, expire_time>>
Tuples == Docs \X Terms \X Weights \X Times
BatchIds == 1..MaxStaged
Batches(n) == [1..n -> Tuples]
EmptyIndex == [t \in Terms |-> <<>>]


\* ------------------------------------------------------------ posting lists
WeightIn(list, doc) ==
  IF \E i \in DOMAIN list : list[i][1] = doc
  THEN list[CHOOSE i \in DOMAIN list : list[i][1] = doc][2]
  ELSE 0

\* upsert that adds the weight to the one the posting has
upsert_accumulate(list, doc, weight) ==
  SelectSeq(list, LAMBDA p : p[1] < doc) \o << <<doc, weight + WeightIn(list, doc)>> >>
    \o SelectSeq(list, LAMBDA p : p[1] > doc)

\* PostingList: sorted ascending by DocId, no duplicate DocId
upsert(list, doc, weight) ==
  SelectSeq(list, LAMBDA p : p[1] < doc) \o << <<doc, weight>> >>
    \o SelectSeq(list, LAMBDA p : p[1] > doc)

remove(list, doc) == SelectSeq(list, LAMBDA p : p[1] # doc)

lookup(idx, term) == idx[term]

\* ---------------------------------------------------------------- changeset
\* number of logical edits one create_update_internal call reports
create_update_ret == 1

create_update_internal(doc, term, weight, cs) ==
  Append(cs, [op |-> "UPSERT", term |-> term, doc |-> doc, weight |-> weight])

remove_internal(doc, term, cs) ==
  Append(cs, [op |-> "DELETE", term |-> term, doc |-> doc, weight |-> 0])

RECURSIVE apply_edits(_, _, _)
apply_edits(list, cs, term) ==
  IF cs = <<>> THEN list
  ELSE LET e == Head(cs)
           nxt == IF e.term # term THEN list
                  ELSE IF e.op = "UPSERT" THEN upsert(list, e.doc, e.weight)
                  ELSE remove(list, e.doc)
       IN apply_edits(nxt, Tail(cs), term)

\* apply_internal, construction: the new list of every term
construct_lists(idx, cs) == [t \in Terms |-> apply_edits(idx[t], cs, t)]

touched_terms(cs) == {cs[i].term : i \in DOMAIN cs}

\* apply_internal, return value: the number of edits it applied
apply_internal_ret(cs) == Len(cs)

\* ------------------------------------------------------------- expire table
expire_update(tbl, key, t) ==
  {x \in tbl : x.key # key} \cup {[key |-> key, t |-> t]}

expire_size(tbl) == Cardinality(tbl)

\* the orders in which a min-heap on the deadline can pop all of S
RECURSIVE deadline_orders(_)
deadline_orders(S) ==
  IF S = {} THEN {<<>>}
  ELSE UNION {{<<x>> \o s : s \in deadline_orders(S \ {x})} :
                x \in {y \in S : \A z \in S : y.t <= z.t}}

\* how many entries expire_with_limit pops
pop_count(tbl, now, limit) ==
  LET size == Cardinality(tbl)
      due == Cardinality({x \in tbl : x.t <= now})
      capped == IF due <= limit THEN due ELSE limit
  IN IF size - capped > limit THEN size - limit ELSE capped

\* the possible results of expire_with_limit: popped entries, ascending deadline
expire_with_limit(tbl, now, limit) ==
  {SubSeq(o, 1, pop_count(tbl, now, limit)) : o \in deadline_orders(tbl)}

Range(s) == {s[i] : i \in DOMAIN s}

\* -------------------------------------------------------------- FeatureCache
SpaceNames == {"A", "B"}
SpaceIds == {1, 2}
FeatureTypes == {"kInteger", "kString"}
NoSpace == [id |-> 0, type |-> "none"]
FeatureSpaces == [id : SpaceIds, type : FeatureTypes]

\* a feature key is a string, here the sequence of its character codes:
\* 0..9 are the digits '0'..'9', 10 and 11 the letters 'x' and 'y'
FeatureKeys == {<<1>>, <<0, 1>>, <<11>>, <<10, 11>>}

\* number of bits of the within-space part of a feature id
PartBits == 2
PartSize == 2 ^ PartBits
kInvalidId == 0
FeatureIds == 0..(3 * PartSize - 1)

\* the decimal value of a string of digits
RECURSIVE parse_integer(_)
parse_integer(key) ==
  IF key = <<>> THEN 0
  ELSE 10 * parse_integer(SubSeq(key, 1, Len(key) - 1)) + key[Len(key)]

\* the hash of a string, cut to the bits of the within-space part
RECURSIVE hash_string(_)
hash_string(key) ==
  IF key = <<>> THEN 0 ELSE (3 * hash_string(Tail(key)) + Head(key)) % PartSize

\* FeatureSpace::calculate_feature_id: the space id in the high bits, the
\* within-space part in the low bits; kInvalidId for a key that is not a
\* number (or does not fit the part) in an integer space
calculate_feature_id(space, key) ==
  IF space.type = "kInteger"
  THEN IF key = <<>> \/ (\E i \in DOMAIN key : key[i] > 9) \/ parse_integer(key) >= PartSize
       THEN kInvalidId
       ELSE space.id * PartSize + parse_integer(key)
  ELSE space.id * PartSize + hash_string(key)

NoCall == [n |-> 0, key |-> <<>>, space |-> NoSpace, ret |-> 0]

\* ---------------------------------------------------------------- server_main
NoLoad == [index |-> EmptyIndex, expire |-> {}]

\* ---------------------------------------------------------- BaseEventIndex
\* update_expire_internal that leaves the deadline of a tracked key as it is
update_expire_internal_keep(tbl, doc, term, expire_time) ==
  IF \E x \in tbl : x.key = <<term, doc>> THEN tbl
  ELSE expire_update(tbl, <<term, doc>>, expire_time)

update_expire_internal(tbl, doc, term, expire_time) ==
  expire_update(tbl, <<term, doc>>, expire_time)

\* apply that hands the table's own size to expire_with_limit
apply_expire_own_size(tbl, now) == expire_with_limit(tbl, now, Cardinality(tbl))

\* apply, line 45: the expire table is popped with max_size_ as its limit
apply_expire(tbl, now) == expire_with_limit(tbl, now, max_size)

RECURSIVE removes_of(_)
removes_of(results) ==
  IF results = <<>> THEN <<>>
  ELSE remove_internal(Head(results).key[2], Head(results).key[1], <<>>)
         \o removes_of(Tail(results))

\* the DELETEs of the expired items put in front of the staged edits
stage_removes_first(results, cs) == removes_of(results) \o cs

\* no DELETE staged for the expired items
stage_removes_none(results, cs) == cs

\* apply, lines 47-49: a DELETE staged for every expired item, in result order
RECURSIVE stage_removes(_, _)
stage_removes(results, cs) ==
  IF results = <<>> THEN cs
  ELSE stage_removes(Tail(results),
                     remove_internal(Head(results).key[2], Head(results).key[1], cs))

Zeros(n) == [i \in 1..n |-> 0]

CountTag(tags, cs, b, term) ==
  Cardinality({i \in DOMAIN cs : tags[i] = b /\ cs[i].term = term})

NoApply == [now |-> 0, pre |-> EmptyIndex, popped |-> <<>>]

NoRet == [ret |-> 0, ret_expire |-> 0, size0 |-> 0]

\* FeatureCache(): no space, no feature
InitCache ==
  /\ spaces = [n \in SpaceNames |-> NoSpace]
  /\ features = [id \in FeatureIds |-> 0]
  /\ heap = <<>>
  /\ fcall = NoCall

\* server_main is entered
InitMain ==
  /\ mpc = "config"
  /\ cfg = [restore_on_startup |-> FALSE, dump_on_exit |-> FALSE]
  /\ mrestore = "none"
  /\ mload = NoLoad
  /\ maintain = "off"
  /\ pipeline = "off"
  /\ server = "off"
  /\ guards = <<>>
  /\ mret = 1
  /\ mlog = <<>>
  /\ queue = 0
  /\ accepted = 0

Init ==
  /\ index = EmptyIndex
  /\ changeset = <<>>
  /\ expire = {}
  /\ mutex = NoThread
  /\ wpc = [w \in Writers |-> "idle"]
  /\ wbatch = [w \in Writers |-> <<>>]
  /\ wret = [w \in Writers |-> 0]
  /\ apc = "idle"
  /\ newl = EmptyIndex
  /\ todo = {}
  /\ subm = <<>>
  /\ csTag = <<>>
  /\ batchLen = [b \in BatchIds |-> 0]
  /\ pubN = [b \in BatchIds |-> 0]
  /\ nbatch = 0
  /\ nstaged = 0
  /\ napply = 0
  /\ lastExp = [k \in Keys |-> 0]
  /\ alast = NoApply
  /\ dpc = "idle"
  /\ dIdx = EmptyIndex
  /\ dExp = {}
  /\ dRef = {}
  /\ dMark = <<0, 0>>
  /\ dQuiet = FALSE
  /\ aret = NoRet
  /\ InitCache
  /\ InitMain

cacheVars == <<spaces, features, heap, fcall>>
pipeVars == <<queue, accepted>>
mainVars == <<mpc, cfg, mrestore, mload, maintain, pipeline, server, guards, mret, mlog,
              pipeVars>>
otherVars == <<cacheVars, mainVars>>
applyVars == <<apc, newl, todo, napply, alast, aret>>
dumpVars == <<dpc, dIdx, dExp, dRef, dMark, dQuiet>>

\* update that writes the posting into the visible list at once
update_direct(w, doc, term, weight, expire_time) ==
  /\ wpc[w] = "idle"
  /\ mutex = NoThread
  /\ nstaged < MaxStaged
  /\ expire' = update_expire_internal(expire, doc, term, expire_time)
  /\ changeset' = create_update_internal(doc, term, weight, changeset)
  /\ index' = [index EXCEPT ![term] = upsert(@, doc, weight)]
  /\ subm' = Append(subm, <<doc, term, weight, expire_time>>)
  /\ csTag' = Append(csTag, nbatch + 1)
  /\ nbatch' = nbatch + 1
  /\ batchLen' = [batchLen EXCEPT ![nbatch + 1] = 1]
  /\ lastExp' = [lastExp EXCEPT ![<<term, doc>>] = expire_time]
  /\ nstaged' = nstaged + 1
  /\ UNCHANGED <<mutex, wpc, wbatch, wret, pubN>>
  /\ UNCHANGED applyVars
  /\ UNCHANGED dumpVars
  /\ UNCHANGED otherVars

\* update that hands term_id and doc_id to create_update_internal swapped
update_swapped_ids(w, doc, term, weight, expire_time) ==
  /\ wpc[w] = "idle"
  /\ mutex = NoThread
  /\ nstaged < MaxStaged
  /\ expire' = update_expire_internal(expire, doc, term, expire_time)
  /\ changeset' = create_update_internal(term, doc, weight, changeset)
  /\ subm' = Append(subm, <<doc, term, weight, expire_time>>)
  /\ csTag' = Append(csTag, nbatch + 1)
  /\ nbatch' = nbatch + 1
  /\ batchLen' = [batchLen EXCEPT ![nbatch + 1] = 1]
  /\ lastExp' = [lastExp EXCEPT ![<<term, doc>>] = expire_time]
  /\ nstaged' = nstaged + 1
  /\ UNCHANGED <<index, mutex, wpc, wbatch, wret, pubN>>
  /\ UNCHANGED applyVars
  /\ UNCHANGED dumpVars
  /\ UNCHANGED otherVars

\* update: the whole call runs inside one critical section
update(w, doc, term, weight, expire_time) ==
  /\ wpc[w] = "idle"
  /\ mutex = NoThread
  /\ nstaged < MaxStaged
  /\ expire' = update_expire_internal(expire, doc, term, expire_time)
  /\ changeset' = create_update_internal(doc, term, weight, changeset)
  /\ subm' = Append(subm, <<doc, term, weight, expire_time>>)
  /\ csTag' = Append(csTag, nbatch + 1)
  /\ nbatch' = nbatch + 1
  /\ batchLen' = [batchLen EXCEPT ![nbatch + 1] = 1]
  /\ lastExp' = [lastExp EXCEPT ![<<term, doc>>] = expire_time]
  /\ nstaged' = nstaged + 1
  /\ UNCHANGED <<index, mutex, wpc, wbatch, wret, pubN>>
  /\ UNCHANGED applyVars
  /\ UNCHANGED dumpVars
  /\ UNCHANGED otherVars

\* batch_update, lines 31-32: ret = 0, the lock is taken
batch_update_begin(w, batch) ==
  /\ wpc[w] = "idle"
  /\ mutex = NoThread
  /\ nstaged + Len(batch) <= MaxStaged
  /\ mutex' = w
  /\ wpc' = [wpc EXCEPT ![w] = "batch"]
  /\ wbatch' = [wbatch EXCEPT ![w] = batch]
  /\ wret' = [wret EXCEPT ![w] = 0]
  /\ nbatch' = IF batch = <<>> THEN nbatch ELSE nbatch + 1
  /\ batchLen' = IF batch = <<>> THEN batchLen
                 ELSE [batchLen EXCEPT ![nbatch + 1] = Len(batch)]
  /\ nstaged' = nstaged + Len(batch)
  /\ UNCHANGED <<index, changeset, expire, subm, csTag, pubN, lastExp>>
  /\ UNCHANGED applyVars
  /\ UNCHANGED dumpVars
  /\ UNCHANGED otherVars

\* batch_update whose lock lives inside the loop body: released after each tuple
batch_update_step_unlocked(w) ==
  /\ wpc[w] = "batch"
  /\ mutex \in {NoThread, w}
  /\ wbatch[w] # <<>>
  /\ LET tuple == Head(wbatch[w])
     IN /\ expire' = update_expire_internal(expire, tuple[1], tuple[2], tuple[4])
        /\ changeset' = create_update_internal(tuple[1], tuple[2], tuple[3], changeset)
        /\ lastExp' = [lastExp EXCEPT ![<<tuple[2], tuple[1]>>] = tuple[4]]
  /\ mutex' = NoThread
  /\ wret' = [wret EXCEPT ![w] = @ + create_update_ret]
  /\ wbatch' = [wbatch EXCEPT ![w] = Tail(@)]
  /\ subm' = Append(subm, Head(wbatch[w]))
  /\ csTag' = Append(csTag, nbatch)
  /\ UNCHANGED <<index, wpc, batchLen, pubN, nbatch, nstaged>>
  /\ UNCHANGED applyVars
  /\ UNCHANGED dumpVars
  /\ UNCHANGED otherVars

\* batch_update, lines 33-36: one iteration of the loop, lock held
batch_update_step(w) ==
  /\ wpc[w] = "batch"
  /\ mutex = w
  /\ wbatch[w] # <<>>
  /\ LET tuple == Head(wbatch[w])
     IN /\ expire' = update_expire_internal(expire, tuple[1], tuple[2], tuple[4])
        /\ changeset' = create_update_internal(tuple[1], tuple[2], tuple[3], changeset)
        /\ lastExp' = [lastExp EXCEPT ![<<tuple[2], tuple[1]>>] = tuple[4]]
  /\ wret' = [wret EXCEPT ![w] = @ + create_update_ret]
  /\ wbatch' = [wbatch EXCEPT ![w] = Tail(@)]
  /\ subm' = Append(subm, Head(wbatch[w]))
  /\ csTag' = Append(csTag, nbatch)
  /\ UNCHANGED <<index, mutex, wpc, batchLen, pubN, nbatch, nstaged>>
  /\ UNCHANGED applyVars
  /\ UNCHANGED dumpVars
  /\ UNCHANGED otherVars

\* batch_update, line 37: return ret, the lock is released
batch_update_end(w) ==
  /\ wpc[w] = "batch"
  /\ mutex = w
  /\ wbatch[w] = <<>>
  /\ mutex' = NoThread
  /\ wpc' = [wpc EXCEPT ![w] = "idle"]
  /\ wret' = [wret EXCEPT ![w] = 0]
  /\ UNCHANGED <<index, changeset, expire, wbatch, subm, csTag, batchLen, pubN,
                 nbatch, nstaged, lastExp>>
  /\ UNCHANGED applyVars
  /\ UNCHANGED dumpVars
  /\ UNCHANGED otherVars

\* apply that also calls apply_internal before it stages the expirations
apply_begin_early(now) ==
  /\ apc = "idle"
  /\ mutex = NoThread
  /\ napply < MaxApply
  /\ \E results \in apply_expire(expire, now) :
       LET cs == stage_removes(results, changeset)
       IN /\ expire' = expire \ Range(results)
          /\ changeset' = cs
          /\ csTag' = csTag \o Zeros(Len(results))
          /\ index' = construct_lists(index, changeset)
          /\ newl' = construct_lists(index, cs)
          /\ todo' = touched_terms(cs)
          /\ lastExp' = [k \in Keys |->
                         IF \E x \in Range(results) : x.key = k THEN 0 ELSE lastExp[k]]
          /\ alast' = [now |-> now, pre |-> index, popped |-> results]
          /\ aret' = [ret |-> apply_internal_ret(cs), ret_expire |-> Len(results),
                      size0 |-> expire_size(expire)]
  /\ mutex' = "apply"
  /\ apc' = "publish"
  /\ napply' = napply + 1
  /\ UNCHANGED <<wpc, wbatch, wret, subm, batchLen, pubN, nbatch, nstaged>>
  /\ UNCHANGED dumpVars
  /\ UNCHANGED otherVars

\* apply that returns make_pair(ret_expire, ret): the two counts swapped
apply_begin_swapped_pair(now) ==
  /\ apc = "idle"
  /\ mutex = NoThread
  /\ napply < MaxApply
  /\ \E results \in apply_expire(expire, now) :
       LET cs == stage_removes(results, changeset)
       IN /\ expire' = expire \ Range(results)
          /\ changeset' = cs
          /\ csTag' = csTag \o Zeros(Len(results))
          /\ newl' = construct_lists(index, cs)
          /\ todo' = touched_terms(cs)
          /\ lastExp' = [k \in Keys |->
                         IF \E x \in Range(results) : x.key = k THEN 0 ELSE lastExp[k]]
          /\ alast' = [now |-> now, pre |-> index, popped |-> results]
          /\ aret' = [ret |-> Len(results), ret_expire |-> apply_internal_ret(cs),
                      size0 |-> expire_size(expire)]
  /\ mutex' = "apply"
  /\ apc' = "publish"
  /\ napply' = napply + 1
  /\ UNCHANGED <<index, wpc, wbatch, wret, subm, batchLen, pubN, nbatch, nstaged>>
  /\ UNCHANGED dumpVars
  /\ UNCHANGED otherVars

\* apply, lines 42-50: lock, expire_with_limit, a DELETE per expired item, and
\* apply_internal's construction of the new lists
apply_begin(now) ==
  /\ apc = "idle"
  /\ mutex = NoThread
  /\ napply < MaxApply
  /\ \E results \in apply_expire(expire, now) :
       LET cs == stage_removes(results, changeset)
       IN /\ expire' = expire \ Range(results)
          /\ changeset' = cs
          /\ csTag' = csTag \o Zeros(Len(results))
          /\ newl' = construct_lists(index, cs)
          /\ todo' = touched_terms(cs)
          /\ lastExp' = [k \in Keys |->
                         IF \E x \in Range(results) : x.key = k THEN 0 ELSE lastExp[k]]
          /\ alast' = [now |-> now, pre |-> index, popped |-> results]
          /\ aret' = [ret |-> apply_internal_ret(cs), ret_expire |-> Len(results),
                      size0 |-> expire_size(expire)]
  /\ mutex' = "apply"
  /\ apc' = "publish"
  /\ napply' = napply + 1
  /\ UNCHANGED <<index, wpc, wbatch, wret, subm, batchLen, pubN, nbatch, nstaged>>
  /\ UNCHANGED dumpVars
  /\ UNCHANGED otherVars

\* apply_internal: the new list of one term is swapped in
apply_publish(term) ==
  /\ apc = "publish"
  /\ term \in todo
  /\ index' = [index EXCEPT ![term] = newl[term]]
  /\ todo' = todo \ {term}
  /\ pubN' = [b \in BatchIds |-> pubN[b] + CountTag(csTag, changeset, b, term)]
  /\ UNCHANGED <<changeset, expire, mutex, wpc, wbatch, wret, apc, newl, subm,
                 csTag, batchLen, nbatch, nstaged, napply, lastExp, alast, aret>>
  /\ UNCHANGED dumpVars
  /\ UNCHANGED otherVars

\* apply_internal clears the changeset; apply, line 51: return, lock released
apply_end ==
  /\ apc = "publish"
  /\ todo = {}
  /\ alast' = NoApply
  /\ aret' = NoRet
  /\ changeset' = <<>>
  /\ subm' = <<>>
  /\ csTag' = <<>>
  /\ newl' = EmptyIndex
  /\ mutex' = NoThread
  /\ apc' = "idle"
  /\ batchLen' = [b \in BatchIds |-> 0]
  /\ pubN' = [b \in BatchIds |-> 0]
  /\ nbatch' = 0
  /\ UNCHANGED <<index, expire, wpc, wbatch, wret, todo, nstaged, napply, lastExp>>
  /\ UNCHANGED dumpVars
  /\ UNCHANGED otherVars

Next ==
  \/ \E w \in Writers, tu \in Tuples : update(w, tu[1], tu[2], tu[3], tu[4])
  \/ \E w \in Writers, n \in 0..(MaxStaged - nstaged) :
       \E batch \in Batches(n) : batch_update_begin(w, batch)
  \/ \E w \in Writers : batch_update_step(w)
  \/ \E w \in Writers : batch_update_end(w)
  \/ \E now \in Nows : apply_begin(now)
  \/ \E term \in Terms : apply_publish(term)
  \/ apply_end

Spec == Init /\ [][Next]_vars


\* -------------------------------------------------------------- FeatureCache
\* number of create_or_get_feature calls in one behaviour
MaxCalls == 3

\* update_queue_size of the update pipeline (configuration value)
update_queue_size == 2
\* number of jobs accepted by enqueue in one behaviour
MaxJobs == 2

indexVars == <<index, changeset, expire, mutex, wpc, wbatch, wret, subm, csTag,
               batchLen, pubN, nbatch, nstaged, lastExp>>

\* create_space: the space of that name is made, or replaced
create_space(name, id, type) ==
  /\ spaces[name] # [id |-> id, type |-> type]
  /\ spaces' = [spaces EXCEPT ![name] = [id |-> id, type |-> type]]
  /\ UNCHANGED <<features, heap, fcall>>
  /\ UNCHANGED <<indexVars, applyVars, dumpVars, mainVars>>

\* create_or_get_feature that makes a new Feature whether or not one is cached
create_or_get_feature_always_new(key, space) ==
  /\ fcall.n < MaxCalls
  /\ LET id == calculate_feature_id(space, key)
     IN IF id = kInvalidId
        THEN /\ fcall' = [n |-> fcall.n + 1, key |-> key, space |-> space, ret |-> 0]
             /\ UNCHANGED <<features, heap>>
        ELSE /\ heap' = Append(heap, [key |-> key, id |-> id])
             /\ features' = [features EXCEPT ![id] = Len(heap) + 1]
             /\ fcall' = [n |-> fcall.n + 1, key |-> key, space |-> space,
                          ret |-> Len(heap) + 1]
  /\ UNCHANGED spaces
  /\ UNCHANGED <<indexVars, applyVars, dumpVars, mainVars>>

\* create_or_get_feature without the kInvalidId test
create_or_get_feature_no_check(key, space) ==
  /\ fcall.n < MaxCalls
  /\ LET id == calculate_feature_id(space, key)
     IN IF features[id] # 0
        THEN /\ fcall' = [n |-> fcall.n + 1, key |-> key, space |-> space,
                          ret |-> features[id]]
             /\ UNCHANGED <<features, heap>>
        ELSE /\ heap' = Append(heap, [key |-> key, id |-> id])
             /\ features' = [features EXCEPT ![id] = Len(heap) + 1]
             /\ fcall' = [n |-> fcall.n + 1, key |-> key, space |-> space,
                          ret |-> Len(heap) + 1]
  /\ UNCHANGED spaces
  /\ UNCHANGED <<indexVars, applyVars, dumpVars, mainVars>>

\* create_or_get_feature(feature_key, space), lines 22-39
create_or_get_feature(key, space) ==
  /\ fcall.n < MaxCalls
  /\ LET id == calculate_feature_id(space, key)
     IN IF id = kInvalidId
        THEN /\ fcall' = [n |-> fcall.n + 1, key |-> key, space |-> space, ret |-> 0]
             /\ UNCHANGED <<features, heap>>
        ELSE IF features[id] # 0
        THEN /\ fcall' = [n |-> fcall.n + 1, key |-> key, space |-> space,
                          ret |-> features[id]]
             /\ UNCHANGED <<features, heap>>
        ELSE /\ heap' = Append(heap, [key |-> key, id |-> id])
             /\ features' = [features EXCEPT ![id] = Len(heap) + 1]
             /\ fcall' = [n |-> fcall.n + 1, key |-> key, space |-> space,
                          ret |-> Len(heap) + 1]
  /\ UNCHANGED spaces
  /\ UNCHANGED <<indexVars, applyVars, dumpVars, mainVars>>

\* create_or_get_feature(feature_key, space_name), lines 11-20
create_or_get_feature_by_name(key, name) ==
  IF spaces[name] = NoSpace
  THEN /\ fcall.n < MaxCalls
       /\ fcall' = [n |-> fcall.n + 1, key |-> key, space |-> NoSpace, ret |-> 0]
       /\ UNCHANGED <<spaces, features, heap>>
       /\ UNCHANGED <<indexVars, applyVars, dumpVars, mainVars>>
  ELSE create_or_get_feature(key, spaces[name])

NextCache ==
  \/ \E name \in SpaceNames, id \in SpaceIds, type \in FeatureTypes :
       create_space(name, id, type)
  \/ \E key \in FeatureKeys, name \in SpaceNames : create_or_get_feature_by_name(key, name)
  \/ \E key \in FeatureKeys, space \in FeatureSpaces : create_or_get_feature(key, space)

SpecCache == Init /\ [][NextCache]_vars

\* ---------------------------------------------------------------------- dump
\* dump that leaves out line 58: no posting list is written
dump_postings_skipped ==
  /\ dpc # "mid"
  /\ dpc' = "mid"
  /\ dIdx' = EmptyIndex
  /\ dRef' = expire
  /\ dMark' = <<nstaged, napply>>
  /\ dQuiet' = (mutex = NoThread)
  /\ UNCHANGED dExp
  /\ UNCHANGED <<index, changeset, expire, mutex, wpc, wbatch, wret, subm, csTag,
                 batchLen, pubN, nbatch, nstaged, lastExp>>
  /\ UNCHANGED applyVars
  /\ UNCHANGED otherVars

\* dump, line 58: dump_internal writes the posting lists; no lock is taken
dump_postings ==
  /\ dpc # "mid"
  /\ dpc' = "mid"
  /\ dIdx' = index
  /\ dRef' = expire
  /\ dMark' = <<nstaged, napply>>
  /\ dQuiet' = (mutex = NoThread)
  /\ UNCHANGED dExp
  /\ UNCHANGED <<index, changeset, expire, mutex, wpc, wbatch, wret, subm, csTag,
                 batchLen, pubN, nbatch, nstaged, lastExp>>
  /\ UNCHANGED applyVars
  /\ UNCHANGED otherVars

\* dump, line 59: expire_.dump reads the expire table, still without the lock;
\* while another thread is inside a critical section the read races with its
\* writes and may miss any of the entries
dump_expire ==
  /\ dpc = "mid"
  /\ dpc' = "done"
  /\ \E view \in (IF mutex = NoThread THEN {expire} ELSE SUBSET expire) :
       dExp' = view
  /\ dQuiet' = (dQuiet /\ mutex = NoThread /\ dMark = <<nstaged, napply>>)
  /\ UNCHANGED <<dIdx, dRef, dMark>>
  /\ UNCHANGED <<index, changeset, expire, mutex, wpc, wbatch, wret, subm, csTag,
                 batchLen, pubN, nbatch, nstaged, lastExp>>
  /\ UNCHANGED applyVars
  /\ UNCHANGED otherVars

NextDump ==
  \/ Next
  \/ dump_postings
  \/ dump_expire

SpecDump == Init /\ [][NextDump]_vars

\* ------------------------------------------------------------ snapshot codec
RECURSIVE flatten(_)
flatten(seqs) == IF seqs = <<>> THEN <<>> ELSE Head(seqs) \o flatten(Tail(seqs))

\* postings section of one term: TermId | count | count x (DocId | TermWeight)
dump_list(term, list) == <<term, Len(list)>> \o flatten(list)

RECURSIVE dump_terms(_, _)
dump_terms(idx, terms) ==
  IF terms = {} THEN <<>>
  ELSE LET t == CHOOSE x \in terms : \A y \in terms : x <= y
       IN dump_list(t, idx[t]) \o dump_terms(idx, terms \ {t})

\* dump_internal: the postings file, the terms that have a list in ascending order
dump_internal(idx) == dump_terms(idx, {t \in Terms : idx[t] # <<>>})

\* the entries of the expire table in ascending deadline order, ties by key
RECURSIVE dump_entries(_)
dump_entries(tbl) ==
  IF tbl = {} THEN <<>>
  ELSE LET x == CHOOSE a \in tbl : \A b \in tbl :
                  \/ a.t < b.t
                  \/ a.t = b.t /\ a.key[1] < b.key[1]
                  \/ a.t = b.t /\ a.key[1] = b.key[1] /\ a.key[2] <= b.key[2]
       IN <<x.key[1], x.key[2], x.t>> \o dump_entries(tbl \ {x})

\* expire_.dump: the expiration file, count | count x (TermId | DocId | ExpireTime)
expire_dump(tbl) == <<Cardinality(tbl)>> \o dump_entries(tbl)

\* the loader's read of the postings file
RECURSIVE load_postings(_)
load_postings(file) ==
  IF Len(file) < 2 THEN EmptyIndex
  ELSE LET term == file[1]
           count == file[2]
           list == [i \in 1..count |-> <<file[2 * i + 1], file[2 * i + 2]>>]
       IN [load_postings(SubSeq(file, 2 * count + 3, Len(file))) EXCEPT ![term] = list]

\* the loader's read of the expiration file
load_expire(file) ==
  IF file = <<>> THEN {}
  ELSE {[key |-> <<file[3 * i - 1], file[3 * i]>>, t |-> file[3 * i + 1]] :
          i \in 1..file[1]}

\* the two files dump has written
snapshot == [idx |-> dump_internal(dIdx), exp |-> expire_dump(dExp)]

\* BaseEventIndex(initial_buckets, max_size, loader), lines 12-14: the base index
\* and then the expire table are read from the loader; the changeset is empty
BaseEventIndex_restore(files) ==
  [index |-> load_postings(files.idx),
   expire |-> load_expire(files.exp),
   changeset |-> <<>>]

\* ---------------------------------------------------------------- server_main
\* the loader's read of the postings file stops where the file ends early
RECURSIVE load_postings_prefix(_)
load_postings_prefix(file) ==
  IF Len(file) < 2 THEN EmptyIndex
  ELSE LET term == file[1]
           count == file[2]
           have == IF 2 * count <= Len(file) - 2 THEN count ELSE (Len(file) - 2) \div 2
           list == [i \in 1..have |-> <<file[2 * i + 1], file[2 * i + 2]>>]
       IN IF have < count THEN [EmptyIndex EXCEPT ![term] = list]
          ELSE [load_postings_prefix(SubSeq(file, 2 * count + 3, Len(file)))
                  EXCEPT ![term] = list]

RECURSIVE postings_ok(_)
postings_ok(file) ==
  \/ file = <<>>
  \/ /\ Len(file) >= 2
     /\ Len(file) >= 2 * file[2] + 2
     /\ postings_ok(SubSeq(file, 2 * file[2] + 3, Len(file)))

load_expire_prefix(file) ==
  IF file = <<>> THEN {}
  ELSE LET have == IF 3 * file[1] <= Len(file) - 1 THEN file[1]
                   ELSE (Len(file) - 1) \div 3
       IN {[key |-> <<file[3 * i - 1], file[3 * i]>>, t |-> file[3 * i + 1]] :
             i \in 1..have}

expire_ok(file) == file # <<>> /\ Len(file) = 3 * file[1] + 1

\* what the snapshot on disk was dumped from
SnapshotContents ==
  {[index |-> EmptyIndex, expire |-> {}],
   [index |-> [EmptyIndex EXCEPT ![1] = << <<1, 1>> >>],
    expire |-> {[key |-> <<1, 1>>, t |-> 1]}],
   [index |-> [EmptyIndex EXCEPT ![1] = << <<1, 2>>, <<2, 1>> >>, ![2] = << <<1, 1>> >>],
    expire |-> {[key |-> <<1, 1>>, t |-> 2], [key |-> <<1, 2>>, t |-> 1],
                [key |-> <<2, 1>>, t |-> 2]}]}

Prefixes(file) == {SubSeq(file, 1, n) : n \in 0..Len(file)}

\* the snapshot files restore may find: whole, or cut short
SnapshotFiles ==
  UNION {[idx : Prefixes(dump_internal(c.index)), exp : Prefixes(expire_dump(c.expire))] :
           c \in SnapshotContents}

\* DocumentIndexManager(initial_buckets, max_size, snapshot_prefix): the postings
\* are read, then the expire table; a file that ends early raises
\* std::ios_base::failure at the point it ends
manager_restore(files) ==
  IF ~postings_ok(files.idx)
  THEN [ok |-> FALSE, index |-> load_postings_prefix(files.idx), expire |-> {}]
  ELSE IF ~expire_ok(files.exp)
  THEN [ok |-> FALSE, index |-> load_postings(files.idx),
        expire |-> load_expire_prefix(files.exp)]
  ELSE [ok |-> TRUE, index |-> load_postings(files.idx), expire |-> load_expire(files.exp)]

cacheAndIndex == <<cacheVars, mutex, changeset, wpc, wbatch, wret, subm, csTag,
                   batchLen, pubN, nbatch, nstaged, lastExp, applyVars,
                   dumpVars>>

\* lines 159-177: restore_on_startup and dump_on_exit are read from the config
read_config ==
  /\ mpc = "config"
  /\ \E r \in BOOLEAN, d \in BOOLEAN :
       cfg' = [restore_on_startup |-> r, dump_on_exit |-> d]
  /\ mpc' = "restore"
  /\ UNCHANGED <<mrestore, mload, maintain, pipeline, server, guards, mret, mlog>>
  /\ UNCHANGED <<index, expire, cacheAndIndex>>
  /\ UNCHANGED pipeVars

\* restore whose handler gives up: the failure returns -1 from server_main
restore_abort_on_failure ==
  /\ mpc = "restore"
  /\ IF cfg.restore_on_startup
     THEN \E files \in SnapshotFiles :
            LET m == manager_restore(files)
            IN /\ mload' = [index |-> m.index, expire |-> m.expire]
               /\ IF m.ok
                  THEN /\ index' = m.index
                       /\ expire' = m.expire
                       /\ mrestore' = "ok"
                       /\ mpc' = "create"
                       /\ UNCHANGED mret
                  ELSE /\ mrestore' = "failed"
                       /\ mpc' = "unwind"
                       /\ mret' = -1
                       /\ UNCHANGED <<index, expire>>
     ELSE /\ mpc' = "create"
          /\ UNCHANGED <<index, expire, mrestore, mload, mret>>
  /\ UNCHANGED <<cfg, maintain, pipeline, server, guards, mlog>>
  /\ UNCHANGED cacheAndIndex
  /\ UNCHANGED pipeVars

\* lines 179-189: with restore_on_startup the manager is constructed from the
\* snapshot; std::ios_base::failure is caught, index stays null and the manager
\* under construction is gone
restore ==
  /\ mpc = "restore"
  /\ IF cfg.restore_on_startup
     THEN \E files \in SnapshotFiles :
            LET m == manager_restore(files)
            IN /\ mload' = [index |-> m.index, expire |-> m.expire]
               /\ IF m.ok
                  THEN /\ index' = m.index
                       /\ expire' = m.expire
                       /\ mrestore' = "ok"
                  ELSE /\ mrestore' = "failed"
                       /\ UNCHANGED <<index, expire>>
     ELSE UNCHANGED <<index, expire, mrestore, mload>>
  /\ mpc' = "create"
  /\ UNCHANGED <<cfg, maintain, pipeline, server, guards, mret, mlog>>
  /\ UNCHANGED cacheAndIndex
  /\ UNCHANGED pipeVars

\* lines 191-195: if (!index) an empty manager is created
create_empty ==
  /\ mpc = "create"
  /\ IF mrestore # "ok"
     THEN index' = EmptyIndex /\ expire' = {}
     ELSE UNCHANGED <<index, expire>>
  /\ mpc' = "maintain"
  /\ UNCHANGED <<cfg, mrestore, mload, maintain, pipeline, server, guards, mret, mlog>>
  /\ UNCHANGED cacheAndIndex
  /\ UNCHANGED pipeVars

\* lines 197-210: start_maintain, and feed_index_guard is armed
start_maintain ==
  /\ mpc = "maintain"
  /\ maintain' = "on"
  /\ guards' = Append(guards, "feed_index_guard")
  /\ mlog' = Append(mlog, "start_maintain")
  /\ mpc' = "pipeline"
  /\ UNCHANGED <<cfg, mrestore, mload, pipeline, server, mret>>
  /\ UNCHANGED <<index, expire, cacheAndIndex>>
  /\ UNCHANGED pipeVars

\* lines 232-237: the pipeline is constructed and started, its guard is armed
pipeline_start ==
  /\ mpc = "pipeline"
  /\ pipeline' = "on"
  /\ guards' = Append(guards, "document_update_pipeline_guard")
  /\ mlog' = Append(mlog, "pipeline.start")
  /\ mpc' = "ranking"
  /\ UNCHANGED <<cfg, mrestore, mload, maintain, server, mret>>
  /\ UNCHANGED <<index, expire, cacheAndIndex>>
  /\ UNCHANGED pipeVars

\* create_model whose error return leaves through exit(-1): no guard runs
create_model_exit ==
  /\ mpc = "ranking"
  /\ \/ mpc' = "server_initialize" /\ UNCHANGED mret
     \/ mpc' = "exited" /\ mret' = -1
  /\ UNCHANGED <<cfg, mrestore, mload, maintain, pipeline, server, guards, mlog>>
  /\ UNCHANGED <<index, expire, cacheAndIndex>>
  /\ UNCHANGED pipeVars

\* lines 249-259: the ranking config is there and the model is created, or the
\* error is logged and -1 returned
create_model ==
  /\ mpc = "ranking"
  /\ \/ mpc' = "server_initialize" /\ UNCHANGED mret
     \/ mpc' = "unwind" /\ mret' = -1
  /\ UNCHANGED <<cfg, mrestore, mload, maintain, pipeline, server, guards, mlog>>
  /\ UNCHANGED <<index, expire, cacheAndIndex>>
  /\ UNCHANGED pipeVars

\* lines 287-300: the server is constructed, bound and initialized, or the error
\* is logged and -1 returned
server_initialize ==
  /\ mpc = "server_initialize"
  /\ \/ mpc' = "server_start" /\ UNCHANGED mret
     \/ mpc' = "unwind" /\ mret' = -1
  /\ UNCHANGED <<cfg, mrestore, mload, maintain, pipeline, server, guards, mlog>>
  /\ UNCHANGED <<index, expire, cacheAndIndex>>
  /\ UNCHANGED pipeVars

\* lines 302-310: server.start fails and -1 is returned, or the server runs and
\* server_guard is armed
server_start ==
  /\ mpc = "server_start"
  /\ \/ /\ server' = "on"
        /\ guards' = Append(guards, "server_guard")
        /\ mlog' = Append(mlog, "server.start")
        /\ mpc' = "serving"
        /\ UNCHANGED mret
     \/ /\ mpc' = "unwind"
        /\ mret' = -1
        /\ UNCHANGED <<server, guards, mlog>>
  /\ UNCHANGED <<cfg, mrestore, mload, maintain, pipeline>>
  /\ UNCHANGED <<index, expire, cacheAndIndex>>
  /\ UNCHANGED pipeVars

\* lines 325-333: the exit signal arrives and server_main returns 0
wait_signal ==
  /\ mpc = "serving"
  /\ mpc' = "unwind"
  /\ mret' = 0
  /\ UNCHANGED <<cfg, mrestore, mload, maintain, pipeline, server, guards, mlog>>
  /\ UNCHANGED <<index, expire, cacheAndIndex>>
  /\ UNCHANGED pipeVars

\* a constructor or call after start_maintain throws; main (lines 358-364)
\* catches it after the stack is unwound and sets ret = -1
throw_exception ==
  /\ mpc \in {"pipeline", "ranking", "server_initialize", "server_start"}
  /\ mpc' = "unwind"
  /\ mret' = -1
  /\ UNCHANGED <<cfg, mrestore, mload, maintain, pipeline, server, guards, mlog>>
  /\ UNCHANGED <<index, expire, cacheAndIndex>>
  /\ UNCHANGED pipeVars

Top(stack) == stack[Len(stack)]
Pop(stack) == SubSeq(stack, 1, Len(stack) - 1)

\* lines 307-310, at scope exit: server.stop
server_guard ==
  /\ mpc = "unwind"
  /\ guards # <<>>
  /\ Top(guards) = "server_guard"
  /\ server' = "stopped"
  /\ guards' = Pop(guards)
  /\ mlog' = Append(mlog, "server.stop")
  /\ UNCHANGED <<mpc, cfg, mrestore, mload, maintain, pipeline, mret>>
  /\ UNCHANGED <<index, expire, cacheAndIndex>>
  /\ UNCHANGED pipeVars

\* an ingestion handler calls enqueue: a job is accepted while the pipeline
\* runs and its queue has room; when the queue is full or the pipeline is
\* stopping the job is rejected and nothing changes
enqueue ==
  /\ pipeline = "on"
  /\ queue < update_queue_size
  /\ accepted < MaxJobs
  /\ queue' = queue + 1
  /\ accepted' = accepted + 1
  /\ UNCHANGED <<mpc, cfg, mrestore, mload, maintain, pipeline, server, guards, mret, mlog>>
  /\ UNCHANGED <<index, expire, cacheAndIndex>>

\* a worker thread takes the jobs waiting in the queue and stages them with one
\* batch_update; a worker of a stopping pipeline still drains the queue
pipeline_worker ==
  /\ pipeline \in {"on", "stopping"}
  /\ queue > 0
  /\ \E n \in 1..queue : queue' = queue - n
  /\ UNCHANGED accepted
  /\ UNCHANGED <<mpc, cfg, mrestore, mload, maintain, pipeline, server, guards, mret, mlog>>
  /\ UNCHANGED <<index, expire, cacheAndIndex>>

\* a guard that lets go of the pipeline without stopping it: the workers run on
document_update_pipeline_guard_detached ==
  /\ mpc = "unwind"
  /\ guards # <<>>
  /\ Top(guards) = "document_update_pipeline_guard"
  /\ guards' = Pop(guards)
  /\ mlog' = Append(mlog, "pipeline.stop")
  /\ UNCHANGED <<mpc, cfg, mrestore, mload, maintain, pipeline, server, mret>>
  /\ UNCHANGED <<index, expire, cacheAndIndex>>
  /\ UNCHANGED pipeVars

\* lines 234-237, at scope exit: document_update_pipeline.stop is called; the
\* queue is closed and the workers are told to stop
document_update_pipeline_guard ==
  /\ mpc = "unwind"
  /\ guards # <<>>
  /\ Top(guards) = "document_update_pipeline_guard"
  /\ pipeline = "on"
  /\ pipeline' = "stopping"
  /\ UNCHANGED <<mpc, cfg, mrestore, mload, maintain, server, guards, mret, mlog>>
  /\ UNCHANGED <<index, expire, cacheAndIndex>>
  /\ UNCHANGED pipeVars

\* document_update_pipeline.stop returns: the workers have drained the queue
\* and are joined
pipeline_stop_join ==
  /\ mpc = "unwind"
  /\ guards # <<>>
  /\ Top(guards) = "document_update_pipeline_guard"
  /\ pipeline = "stopping"
  /\ queue = 0
  /\ pipeline' = "stopped"
  /\ guards' = Pop(guards)
  /\ mlog' = Append(mlog, "pipeline.stop")
  /\ UNCHANGED <<mpc, cfg, mrestore, mload, maintain, server, mret>>
  /\ UNCHANGED <<index, expire, cacheAndIndex>>
  /\ UNCHANGED pipeVars

\* lines 199-202, at scope exit: with dump_on_exit index->dump is called
feed_index_guard_dump_begin ==
  /\ mpc = "unwind"
  /\ guards # <<>>
  /\ Top(guards) = "feed_index_guard"
  /\ cfg.dump_on_exit
  /\ mlog # <<>>
  /\ Top(mlog) \notin {"dumping", "dump", "dump failed"}
  /\ mlog' = Append(mlog, "dumping")
  /\ UNCHANGED <<mpc, cfg, mrestore, mload, maintain, pipeline, server, guards, mret>>
  /\ UNCHANGED <<index, expire, cacheAndIndex>>
  /\ UNCHANGED pipeVars

\* lines 202-206: the dump ends well or with std::ios_base::failure, which is
\* caught
feed_index_guard_dump ==
  /\ mpc = "unwind"
  /\ guards # <<>>
  /\ Top(guards) = "feed_index_guard"
  /\ cfg.dump_on_exit
  /\ mlog # <<>>
  /\ Top(mlog) = "dumping"
  /\ \E result \in {"dump", "dump failed"} : mlog' = Append(mlog, result)
  /\ UNCHANGED <<mpc, cfg, mrestore, mload, maintain, pipeline, server, guards, mret>>
  /\ UNCHANGED <<index, expire, cacheAndIndex>>
  /\ UNCHANGED pipeVars

\* lines 208-209, at scope exit: stop_maintain
feed_index_guard_stop ==
  /\ mpc = "unwind"
  /\ guards # <<>>
  /\ Top(guards) = "feed_index_guard"
  /\ cfg.dump_on_exit => (mlog # <<>> /\ Top(mlog) \in {"dump", "dump failed"})
  /\ maintain' = "stopped"
  /\ guards' = Pop(guards)
  /\ mlog' = Append(mlog, "stop_maintain")
  /\ UNCHANGED <<mpc, cfg, mrestore, mload, pipeline, server, mret>>
  /\ UNCHANGED <<index, expire, cacheAndIndex>>
  /\ UNCHANGED pipeVars

\* server_main has returned to main
exit_main ==
  /\ mpc = "unwind"
  /\ guards = <<>>
  /\ mpc' = "exited"
  /\ UNCHANGED <<cfg, mrestore, mload, maintain, pipeline, server, guards, mret, mlog>>
  /\ UNCHANGED <<index, expire, cacheAndIndex>>
  /\ UNCHANGED pipeVars

\* the steps the main thread takes by itself
MainSteps ==
  \/ read_config
  \/ restore
  \/ create_empty
  \/ start_maintain
  \/ pipeline_start
  \/ create_model
  \/ server_initialize
  \/ server_start
  \/ throw_exception
  \/ server_guard
  \/ document_update_pipeline_guard
  \/ pipeline_stop_join
  \/ feed_index_guard_dump_begin
  \/ feed_index_guard_dump
  \/ feed_index_guard_stop
  \/ exit_main

NextMain ==
  \/ MainSteps
  \/ wait_signal
  \/ enqueue
  \/ pipeline_worker

SpecMain == Init /\ [][NextMain]_vars

\* the main thread and the pipeline workers keep running; only the exit signal
\* and the ingestion handlers' jobs need not come
SpecMainFair == SpecMain /\ WF_vars(MainSteps) /\ WF_vars(pipeline_worker)

\* ------------------------------------------------------------ state functions
\* the (term, doc) keys that have a posting in idx
VisibleKeys(idx) == UNION {{<<t, idx[t][i][1]>> : i \in DOMAIN idx[t]} : t \in Terms}

\* every list is swapped in: the state apply returns with
AtReturn == apc = "publish" /\ todo = {}

\* the expire table as the apply in progress found it
ExpPre == expire \cup Range(alast.popped)

\* the list of a term after the apply in progress: every edit of the drained
\* changeset made to the list the apply started from
PostList(term) == apply_edits(alast.pre[term], changeset, term)

EditsOf(term) == {i \in DOMAIN changeset : changeset[i].term = term}

\* ----------------------------------------------------------------------- C1
\* C1: update and batch_update never change the reader-visible posting lists:
\* every step taken while no apply is running leaves lookup(T) as it was for
\* every term T, so between two applies readers see the lists of the earlier one.
C1_WritesInvisible ==
  [][(apc = "idle" /\ apc' = "idle") =>
       \A t \in Terms : lookup(index', t) = lookup(index, t)]_vars

\* an apply has published postings and edits staged since would change them
C1_Witness ==
  /\ apc = "idle"
  /\ napply >= 1
  /\ index # EmptyIndex
  /\ subm # <<>>
  /\ construct_lists(index, changeset) # index


C3_LookupOldOrNew ==
  /\ [](apc = "publish" =>
          \A t \in Terms :
            /\ lookup(index, t) \in {alast.pre[t], PostList(t)}
            /\ t \notin todo => lookup(index, t) = PostList(t))
  /\ [][(apc = "publish" /\ apc' = "idle") => (AtReturn /\ index' = index)]_vars

\* mid-apply, a term with two or more drained edits shows its new list
C3_Witness ==
  /\ apc = "publish"
  /\ \E t \in Terms :
       /\ Cardinality(EditsOf(t)) >= 2
       /\ t \notin todo
       /\ lookup(index, t) = PostList(t)
       /\ lookup(index, t) # alast.pre[t]

\* ----------------------------------------------------------------------- C4
\* C4: if the expire table holds at most max_size entries when apply(now)
\* starts, then when it returns no key whose expire-time is <= now is visible,
\* keys upserted since the previous apply included.
C4_ExpiredNotVisible ==
  (AtReturn /\ Cardinality(ExpPre) <= max_size) =>
    \A x \in ExpPre : x.t <= alast.now => x.key \notin VisibleKeys(index)

\* a tuple submitted since the previous apply was already due and is not visible
C4_Witness ==
  /\ AtReturn
  /\ Cardinality(ExpPre) <= max_size
  /\ \E i \in DOMAIN subm :
       /\ subm[i][4] <= alast.now
       /\ \E x \in Range(alast.popped) : x.key = <<subm[i][2], subm[i][1]>>
       /\ <<subm[i][2], subm[i][1]>> \notin VisibleKeys(index)

\* ----------------------------------------------------------------------- C5
\* C5: if the expire table holds more than max_size entries when apply starts,
\* it holds at most max_size when apply returns, and no entry is evicted while
\* an entry with a strictly smaller expire-time is kept.
C5_CapacityEviction ==
  (AtReturn /\ Cardinality(ExpPre) > max_size) =>
    /\ expire_size(expire) <= max_size
    /\ \A a, b \in ExpPre : (a.t < b.t /\ b \notin expire) => a \notin expire

\* an entry not yet due was evicted for capacity and a later deadline was kept
C5_Witness ==
  /\ AtReturn
  /\ Cardinality(ExpPre) > max_size
  /\ \E a \in ExpPre \ expire, b \in expire : a.t > alast.now /\ a.t < b.t


\* ----------------------------------------------------------------------- C6
\* the in-order reduction of submitted tuples over the lists pre: the last
\* tuple of a key decides its weight, a key without a tuple keeps its posting
LastOf(tuples, term, doc) ==
  LET I == {i \in DOMAIN tuples : tuples[i][2] = term /\ tuples[i][1] = doc}
  IN IF I = {} THEN 0 ELSE CHOOSE i \in I : \A j \in I : j <= i

ReducedWeight(pre, tuples, term, doc) ==
  IF LastOf(tuples, term, doc) = 0 THEN WeightIn(pre[term], doc)
  ELSE tuples[LastOf(tuples, term, doc)][3]

RECURSIVE ReducedList(_, _, _, _)
ReducedList(pre, tuples, term, docs) ==
  IF docs = {} THEN <<>>
  ELSE LET d == CHOOSE x \in docs : \A y \in docs : x <= y
           w == ReducedWeight(pre, tuples, term, d)
       IN (IF w = 0 THEN <<>> ELSE << <<d, w>> >>)
            \o ReducedList(pre, tuples, term, docs \ {d})

Reduced(pre, tuples) == [t \in Terms |-> ReducedList(pre, tuples, t, Docs)]

NothingDue == \A x \in ExpPre : x.t > alast.now

\* C6 as stated: when no key (staged or visible) has an expire-time <= now,
\* the lists apply returns with are the in-order reduction of the edits staged
\* since the previous apply over the lists visible before.
C6_ReductionIfNothingDue ==
  (AtReturn /\ NothingDue) => index = Reduced(alast.pre, subm)

\* C6, amended: the same, when moreover the expire table holds at most
\* max_size entries as apply starts (so that nothing is evicted for capacity).
C6_ReductionIfNothingPopped ==
  (AtReturn /\ NothingDue /\ Cardinality(ExpPre) <= max_size) =>
    index = Reduced(alast.pre, subm)

\* one key was upserted twice with different weights and the apply published it
C6_Witness ==
  /\ AtReturn
  /\ NothingDue
  /\ Cardinality(ExpPre) <= max_size
  /\ index # alast.pre
  /\ \E i, j \in DOMAIN subm :
       /\ i < j
       /\ subm[i][1] = subm[j][1]
       /\ subm[i][2] = subm[j][2]
       /\ subm[i][3] # subm[j][3]

\* ----------------------------------------------------------------------- C7
\* C7: when apply returns, no key it popped from the expire table is visible:
\* the deletion is published by the same apply.
C7_PoppedDeletedBySameApply ==
  AtReturn => \A x \in Range(alast.popped) : x.key \notin VisibleKeys(index)

\* a key that was visible before the apply was popped by it
C7_Witness ==
  /\ AtReturn
  /\ \E x \in Range(alast.popped) : x.key \in VisibleKeys(alast.pre)

\* ----------------------------------------------------------------------- C8
\* C8: the expire table holds at most one entry per key, exactly for the keys
\* updated since they were last popped, with the expire_time of the most recent
\* update; so after an apply(now) that started within max_size every key whose
\* latest expire_time is > now is visible, whatever its earlier deadlines were.
C8_ExpireReplaced ==
  /\ \A x, y \in expire : x.key = y.key => x = y
  /\ \A k \in Keys : lastExp[k] # 0 <=> \E x \in expire : x.key = k
  /\ \A x \in expire : x.t = lastExp[x.key]
  /\ (AtReturn /\ Cardinality(ExpPre) <= max_size) =>
       \A k \in Keys : lastExp[k] > alast.now => k \in VisibleKeys(index)

\* a key re-upserted with a later expire_time, old <= now < new, is visible
C8_Witness ==
  /\ AtReturn
  /\ Cardinality(ExpPre) <= max_size
  /\ \E i, j \in DOMAIN subm :
       /\ i < j
       /\ subm[i][1] = subm[j][1]
       /\ subm[i][2] = subm[j][2]
       /\ subm[i][4] <= alast.now
       /\ alast.now < subm[j][4]
       /\ <<subm[j][2], subm[j][1]>> \in VisibleKeys(index)

\* ----------------------------------------------------------------------- C9
\* what update leaves in the expire table and the changeset (lines 25-26)
Staged(tbl, cs, tu) ==
  [expire |-> update_expire_internal(tbl, tu[1], tu[2], tu[4]),
   changeset |-> create_update_internal(tu[1], tu[2], tu[3], cs)]

\* what apply(now) can return with from there (lines 45-50)
Outcomes(st, idx, now) ==
  {[index |-> construct_lists(idx, stage_removes(r, st.changeset)),
    expire |-> st.expire \ Range(r),
    size |-> expire_size(st.expire \ Range(r))] : r \in apply_expire(st.expire, now)}

\* C9: whenever a tuple has just been submitted (by update or as the last
\* tuple of a batch), submitting it once more before the apply changes nothing
\* the apply returns with: same visible lists, same expire table, same size.
C9_DuplicateUpsertIdempotent ==
  (apc = "idle" /\ mutex = NoThread /\ subm # <<>>) =>
    \A now \in Nows :
      LET once == [expire |-> expire, changeset |-> changeset]
          twice == Staged(expire, changeset, subm[Len(subm)])
      IN Outcomes(twice, index, now) = Outcomes(once, index, now)

\* a tuple was submitted twice in a row and an apply published it once
C9_Witness ==
  /\ AtReturn
  /\ \E i \in DOMAIN subm :
       /\ i + 1 \in DOMAIN subm
       /\ subm[i] = subm[i + 1]
       /\ lookup(index, subm[i][2]) = << <<subm[i][1], subm[i][3]>> >>
       /\ expire = {[key |-> <<subm[i][2], subm[i][1]>>, t |-> subm[i][4]]}

\* ---------------------------------------------------------------------- C10
\* C10: dump holds the changeset mutex: while it runs no update, batch_update or
\* apply is inside its critical section, and the expiration section it writes
\* is the table as it was when the postings section was written.
C10_DumpUnderLock ==
  /\ dpc = "mid" => (apc = "idle" /\ \A w \in Writers : wpc[w] = "idle")
  /\ dpc = "done" => dExp = dRef

\* ---------------------------------------------------------------------- C11
\* dump has just returned, and from before its first read until now no update,
\* batch_update or apply was inside its critical section
Dumped ==
  /\ dpc = "done"
  /\ dQuiet
  /\ mutex = NoThread
  /\ dMark = <<nstaged, napply>>

Same(restored) ==
  /\ \A t \in Terms : lookup(restored.index, t) = lookup(index, t)
  /\ restored.expire = expire

SameAfterApply(restored) ==
  \A now \in Nows :
    Outcomes(restored, restored.index, now)
      = Outcomes([expire |-> expire, changeset |-> changeset], index, now)

\* C11 as stated: an index constructed from the snapshot of a quiesced index
\* has the same visible lists and the same expire table as the dumped one, and
\* the same apply call leaves both with the same visible lists and expire table.
C11_RoundTrip ==
  Dumped => LET restored == BaseEventIndex_restore(snapshot)
            IN Same(restored) /\ SameAfterApply(restored)

\* C11, amended: the lists and the expire table are the same; the same apply
\* call leaves both the same when no edit is staged in the changeset of the
\* dumped index (the snapshot does not hold the changeset).
C11_RoundTripNothingStaged ==
  Dumped => LET restored == BaseEventIndex_restore(snapshot)
            IN /\ Same(restored)
               /\ changeset = <<>> => SameAfterApply(restored)

\* a quiesced index with a posting and nothing staged was dumped and read back
C11_Witness ==
  /\ Dumped
  /\ changeset = <<>>
  /\ napply >= 1
  /\ VisibleKeys(index) # {}
  /\ expire # {}
  /\ BaseEventIndex_restore(snapshot).index = index

\* ---------------------------------------------------------------------- C16
\* C16 as stated: in the changeset an apply drains, the DELETEs of the popped
\* keys come before the edits staged since the previous apply, and a key that
\* was both upserted since the previous apply and popped by this apply is
\* visible with the upserted weight when the apply returns.
C16_UpsertWinsOverPop ==
  AtReturn =>
    /\ \A i, j \in DOMAIN changeset : (csTag[i] = 0 /\ csTag[j] # 0) => i < j
    /\ \A x \in Range(alast.popped) :
         LastOf(subm, x.key[1], x.key[2]) # 0 =>
           WeightIn(index[x.key[1]], x.key[2])
             = subm[LastOf(subm, x.key[1], x.key[2])][3]

\* C16, amended: the DELETEs of the popped keys come after the edits staged
\* since the previous apply; a key both upserted since the previous apply and
\* popped by this apply is not visible when the apply returns, and an upserted
\* key that this apply did not pop is visible with the upserted weight.
C16_PopWinsOverUpsert ==
  AtReturn =>
    /\ \A i, j \in DOMAIN changeset : (csTag[i] = 0 /\ csTag[j] # 0) => j < i
    /\ \A x \in Range(alast.popped) :
         LastOf(subm, x.key[1], x.key[2]) # 0 => x.key \notin VisibleKeys(index)
    /\ \A k \in Keys :
         (LastOf(subm, k[1], k[2]) # 0 /\ \A x \in Range(alast.popped) : x.key # k) =>
           WeightIn(index[k[1]], k[2]) = subm[LastOf(subm, k[1], k[2])][3]

\* a visible key was upserted again and popped by the same apply
C16_Witness ==
  /\ AtReturn
  /\ \E x \in Range(alast.popped) :
       /\ LastOf(subm, x.key[1], x.key[2]) # 0
       /\ x.key \in VisibleKeys(alast.pre)
       /\ x.key \notin VisibleKeys(index)

\* ---------------------------------------------------------------------- C17
\* update called on each tuple in order, nothing in between (lines 25-26)
RECURSIVE update_all(_, _)
update_all(st, tuples) ==
  IF tuples = <<>> THEN st
  ELSE update_all(Staged(st.expire, st.changeset, Head(tuples)), Tail(tuples))

\* the sum of what those update calls return
RECURSIVE update_ret_sum(_)
update_ret_sum(tuples) ==
  IF tuples = <<>> THEN 0 ELSE create_update_ret + update_ret_sum(Tail(tuples))

\* C17: batch_update starts with ret = 0 and leaves the changeset and the expire
\* table alone until its loop; every iteration takes the next tuple of the batch
\* and leaves the changeset and the expire table as update on that tuple leaves
\* them, adding update's return value to ret; while the call is inside its batch
\* no other step changes either; and it returns, when no tuple is left, without
\* a further change. (So an empty batch returns 0 and changes nothing.)
C17_BatchIsUpdates ==
  [][\A w \in Writers :
       /\ (wpc[w] = "idle" /\ wpc'[w] = "batch") =>
            (wret'[w] = 0 /\ expire' = expire /\ changeset' = changeset)
       /\ (wpc[w] = "batch" /\ wpc'[w] = "batch" /\ wbatch'[w] # wbatch[w]) =>
            (/\ wbatch'[w] = Tail(wbatch[w])
             /\ update_all([expire |-> expire, changeset |-> changeset],
                           <<Head(wbatch[w])>>)
                  = [expire |-> expire', changeset |-> changeset']
             /\ wret'[w] = wret[w] + update_ret_sum(<<Head(wbatch[w])>>))
       /\ (wpc[w] = "batch" /\ wpc'[w] = "batch" /\ wbatch'[w] = wbatch[w]) =>
            (expire' = expire /\ changeset' = changeset /\ wret'[w] = wret[w])
       /\ (wpc[w] = "batch" /\ wpc'[w] = "idle") =>
            (wbatch[w] = <<>> /\ expire' = expire /\ changeset' = changeset)]_vars

\* a batch of two tuples is about to return 2, after an update of the other writer
C17_Witness ==
  \E w \in Writers :
    /\ wpc[w] = "batch"
    /\ wbatch[w] = <<>>
    /\ wret[w] = 2
    /\ batchLen[nbatch] = 2
    /\ Len(changeset) >= 2

\* ---------------------------------------------------------------------- C18
\* what apply(now) can return from the state st (lines 45-51)
Returns(st, now) ==
  {<<apply_internal_ret(stage_removes(r, st.changeset)), Len(r)>> :
     r \in apply_expire(st.expire, now)}

\* an apply(now) repeated right after the one that is returning
RepeatChangesNothing ==
  LET st == [expire |-> expire, changeset |-> <<>>]
  IN /\ Returns(st, alast.now) = {<<0, 0>>}
     /\ \A o \in Outcomes(st, index, alast.now) : o.index = index /\ o.expire = expire

\* C18 as stated: ret_expire is the number of keys the call removed from the
\* expire table, the changeset is empty once apply has returned, and the same
\* apply(now) repeated at once returns (0, 0) and changes nothing.
C18_ApplyReports ==
  /\ [](AtReturn => (aret.ret_expire = aret.size0 - expire_size(expire)
                       /\ RepeatChangesNothing))
  /\ [][(apc = "publish" /\ apc' = "idle") => changeset' = <<>>]_vars

\* C18, amended: the same, the repeated apply being claimed only when the
\* expire table held at most max_size entries as the first apply started.
C18_ApplyReportsWithinCapacity ==
  /\ [](AtReturn => aret.ret_expire = aret.size0 - expire_size(expire))
  /\ []((AtReturn /\ aret.size0 <= max_size) => RepeatChangesNothing)
  /\ [][(apc = "publish" /\ apc' = "idle") => changeset' = <<>>]_vars

\* an apply that popped a key and applied two edits is returning
C18_Witness ==
  /\ AtReturn
  /\ aret.size0 <= max_size
  /\ aret.ret_expire >= 1
  /\ aret.ret >= 2
  /\ index # alast.pre

\* ---------------------------------------------------------------------- C20
PendingUpserts ==
  {<<changeset[i].term, changeset[i].doc>> :
     i \in {j \in DOMAIN changeset : changeset[j].op = "UPSERT"}}

\* C20: whenever the changeset mutex is free, every key that is visible in a
\* posting list or pending as an upsert in the changeset has an entry in the
\* expire table.
C20_NoImmortalPostings ==
  mutex = NoThread =>
    \A k \in VisibleKeys(index) \cup PendingUpserts : \E x \in expire : x.key = k

\* after an apply one key is visible and another one is pending as an upsert
C20_Witness ==
  /\ mutex = NoThread
  /\ napply >= 1
  /\ VisibleKeys(index) # {}
  /\ PendingUpserts # {}
  /\ PendingUpserts \cap VisibleKeys(index) = {}

\* ---------------------------------------------------------------------- C14
\* the Feature objects made so far that carry the id
ObjectsOf(id) == {n \in DOMAIN heap : heap[n].id = id}

\* C14: create_or_get_feature returns, through either overload, the Feature
\* object the cache holds for the id of (key, space); the object cached for an
\* id is never replaced, so every call with that key and space returns the same
\* object; and exactly one Feature was ever made for a cached id.
C14_SameFeatureEveryTime ==
  /\ [](fcall.ret # 0 =>
          LET id == calculate_feature_id(fcall.space, fcall.key)
          IN fcall.ret = features[id] /\ ObjectsOf(id) = {fcall.ret})
  /\ [][\A id \in FeatureIds : features[id] # 0 => features'[id] = features[id]]_vars

\* the third call with a key and a space that an earlier call had made a Feature
\* for returns that first object
C14_Witness ==
  /\ fcall.n = 3
  /\ fcall.ret = 1
  /\ Len(heap) = 2
  /\ heap[1].key = fcall.key

\* ---------------------------------------------------------------------- C15
Rejected(call) ==
  call.space = NoSpace \/ calculate_feature_id(call.space, call.key) = kInvalidId

\* C15: a call that names a space that does not exist, or whose key yields
\* kInvalidId in its space, returns null and leaves the cache as it was; every
\* other call returns a Feature whose id is not kInvalidId.
C15_NullOnBadSpaceOrKey ==
  [][fcall'.n # fcall.n =>
       IF Rejected(fcall')
       THEN fcall'.ret = 0 /\ features' = features /\ heap' = heap /\ spaces' = spaces
       ELSE fcall'.ret \in DOMAIN heap' /\ heap'[fcall'.ret].id # kInvalidId]_vars

\* a non-numeric key in an integer space was refused, the cache holding a feature
C15_Witness ==
  /\ fcall.n >= 2
  /\ fcall.ret = 0
  /\ fcall.space # NoSpace
  /\ fcall.space.type = "kInteger"
  /\ \E i \in DOMAIN fcall.key : fcall.key[i] > 9
  /\ Len(heap) >= 1

\* ---------------------------------------------------------------------- C19
\* C19: the Feature a call returns has the key the call asked for.
C19_ReturnedKeyIsRequested ==
  fcall.ret # 0 => heap[fcall.ret].key = fcall.key

\* ---------------------------------------------------------------------- C12
\* C12: after a restore that failed, the index the service uses is empty, with
\* nothing of what the failed restore had read; server_main does not return
\* before maintenance was started, and maintenance does get started.
C12_RestoreFailureFallsBack ==
  /\ []((mrestore = "failed" /\ mpc \notin {"restore", "create"}) =>
          (index = EmptyIndex /\ expire = {}))
  /\ []((mrestore = "failed" /\ mpc \in {"unwind", "exited"}) => maintain # "off")
  /\ (mrestore = "failed" /\ mpc = "create") ~> (maintain = "on")

\* the restore failed after it had read postings, and the service is serving
C12_Witness ==
  /\ mrestore = "failed"
  /\ mload.index # EmptyIndex
  /\ maintain = "on"
  /\ server = "on"
  /\ index = EmptyIndex
  /\ expire = {}

\* ---------------------------------------------------------------------- C13
\* C13: once server_main is leaving with the maintenance thread started,
\* stop_maintain gets called, and with the pipeline started its stop gets
\* called; server_main has never returned with either still running.
C13_GuardsRelease ==
  /\ (mpc = "unwind" /\ maintain = "on") ~> (maintain = "stopped")
  /\ (mpc = "unwind" /\ pipeline = "on") ~> (pipeline = "stopped")
  /\ [](mpc = "exited" => (maintain # "on" /\ pipeline # "on"))

\* an error return after both were started has stopped both
C13_Witness ==
  /\ mpc = "exited"
  /\ mret = -1
  /\ maintain = "stopped"
  /\ pipeline = "stopped"
  /\ server = "off"

\* ---------------------------------------------------------------------- C21
\* every call a in the log of server_main comes before every call b
Precedes(a, b) == \A i, j \in DOMAIN mlog : (mlog[i] = a /\ mlog[j] = b) => i < j

\* the exit-time dump has been called
DumpBegun == \E i \in DOMAIN mlog : mlog[i] = "dumping"

\* the exit-time dump is running
DumpRunning == mlog # <<>> /\ Top(mlog) = "dumping"

\* C21: server_main shuts down in order: the HTTP server is stopped before the
\* update pipeline is stopped, the pipeline before the exit-time dump is called,
\* and the dump has ended before stop_maintain; so from the start of that dump
\* on no job is enqueued and no worker stages one, while the maintenance thread
\* is running for as long as the dump runs.
C21_ShutdownOrdered ==
  /\ [](/\ Precedes("server.stop", "pipeline.stop")
        /\ Precedes("pipeline.stop", "dumping")
        /\ Precedes("dumping", "stop_maintain")
        /\ Precedes("dump", "stop_maintain")
        /\ Precedes("dump failed", "stop_maintain"))
  /\ [](pipeline \in {"stopping", "stopped"} => server # "on")
  /\ [](DumpBegun => (pipeline \notin {"on", "stopping"} /\ server # "on"))
  /\ [](DumpRunning => maintain = "on")
  /\ [][DumpBegun => UNCHANGED pipeVars]_vars

\* the dump is running after a signal ended the service: jobs had been
\* accepted, the server and the pipeline are stopped, the queue is drained
C21_Witness ==
  /\ DumpRunning
  /\ mret = 0
  /\ accepted >= 1
  /\ queue = 0
  /\ server = "stopped"
  /\ pipeline = "stopped"
  /\ maintain = "on"

====
